---- MODULE Spec2Model ----
(***************************************************************************)
(* ToneTranslator (src/app.py): the capture -> transcribe -> translate ->  *)
(* rewrite pipeline of main(), the playback trigger, and the three tone    *)
(* transforms of FreeToneConverter.                                        *)
(*                                                                         *)
(* A Python str is a sequence of one-character strings; the emoji U+1F60A  *)
(* is the single element "U+1F60A".  An Optional value is a set of at most *)
(* one element: None is {} and a present value v is {v}.                   *)
(***************************************************************************)
EXTENDS Integers, Sequences, FiniteSets, TLC

None == {}
Some(v) == {v}
TheValue(o) == CHOOSE v \in o : TRUE

(***************************************************************************)
(* Python str builtins used by the tone transforms.                        *)
(***************************************************************************)
ascii_uppercase ==
    <<"A", "B", "C", "D", "E", "F", "G", "H", "I", "J", "K", "L", "M",
      "N", "O", "P", "Q", "R", "S", "T", "U", "V", "W", "X", "Y", "Z">>
ascii_lowercase ==
    <<"a", "b", "c", "d", "e", "f", "g", "h", "i", "j", "k", "l", "m",
      "n", "o", "p", "q", "r", "s", "t", "u", "v", "w", "x", "y", "z">>

lower_char(c) ==
    IF \E i \in DOMAIN ascii_uppercase : ascii_uppercase[i] = c
    THEN ascii_lowercase[CHOOSE i \in DOMAIN ascii_uppercase : ascii_uppercase[i] = c]
    ELSE c

upper_char(c) ==
    IF \E i \in DOMAIN ascii_lowercase : ascii_lowercase[i] = c
    THEN ascii_uppercase[CHOOSE i \in DOMAIN ascii_lowercase : ascii_lowercase[i] = c]
    ELSE c

\* str.lower()
lower(s) == [i \in 1..Len(s) |-> lower_char(s[i])]

\* str.capitalize(): first character upper-cased, the rest lower-cased
capitalize(s) ==
    [i \in 1..Len(s) |-> IF i = 1 THEN upper_char(s[i]) ELSE lower_char(s[i])]

\* str.endswith(suffix)
endswith(s, suffix) ==
    /\ Len(s) >= Len(suffix)
    /\ SubSeq(s, Len(s) - Len(suffix) + 1, Len(s)) = suffix

\* str.replace(k, v) for a non-empty k: every non-overlapping occurrence,
\* scanning left to right
RECURSIVE replace(_, _, _)
replace(s, k, v) ==
    IF Len(s) < Len(k) THEN s
    ELSE IF SubSeq(s, 1, Len(k)) = k
         THEN v \o replace(SubSeq(s, Len(k) + 1, Len(s)), k, v)
         ELSE <<Head(s)>> \o replace(Tail(s), k, v)

\* random.choice(seq): the values it can return
choice(seq) == {seq[i] : i \in DOMAIN seq}

(***************************************************************************)
(* FreeToneConverter                                                       *)
(***************************************************************************)
\* the replacements dict, in insertion (= iteration) order
replacements ==
    << << <<"i", "'", "m">>,           <<"I", " ", "a", "m">> >>,
       << <<"d", "o", "n", "'", "t">>, <<"d", "o", " ", "n", "o", "t">> >>,
       << <<"c", "a", "n", "'", "t">>, <<"c", "a", "n", "n", "o", "t">> >>,
       << <<"y", "e", "a", "h">>,      <<"y", "e", "s">> >> >>

\* for k, v in replacements.items(): result = result.replace(k, v)
RECURSIVE apply_replacements(_, _)
apply_replacements(result, i) ==
    IF i > Len(replacements) THEN result
    ELSE apply_replacements(replace(result, replacements[i][1], replacements[i][2]), i + 1)

professional_prefix ==
    <<"I", " ", "w", "o", "u", "l", "d", " ", "l", "i", "k", "e", " ", "t", "o", " ",
      "i", "n", "f", "o", "r", "m", " ", "y", "o", "u", " ", "t", "h", "a", "t", " ">>

formal_prefix ==
    <<"I", "t", " ", "i", "s", " ", "m", "y", " ", "u", "n", "d", "e", "r", "s", "t",
      "a", "n", "d", "i", "n", "g", " ", "t", "h", "a", "t", " ">>

\* variant: the threshold test written as >= 20
_make_professional_ge(text) ==
    LET lowered     == lower(text)
        substituted == apply_replacements(lowered, 1)
        capitalized == capitalize(substituted)
        result      == IF ~endswith(capitalized, <<".">>)
                       THEN capitalized \o <<".">> ELSE capitalized
    IN  IF Len(result) >= 20 THEN professional_prefix \o result ELSE result

_make_professional(text) ==
    LET lowered     == lower(text)
        substituted == apply_replacements(lowered, 1)
        capitalized == capitalize(substituted)
        result      == IF ~endswith(capitalized, <<".">>)
                       THEN capitalized \o <<".">> ELSE capitalized
    IN  IF Len(result) > 20 THEN professional_prefix \o result ELSE result

_make_formal(text) ==
    LET lowered     == lower(text)
        substituted == apply_replacements(lowered, 1)
        capitalized == capitalize(substituted)
        result      == IF ~endswith(capitalized, <<".">>)
                       THEN capitalized \o <<".">> ELSE capitalized
    IN  IF Len(result) > 15 THEN formal_prefix \o result ELSE result

starters ==
    << <<"H", "e", "y", " ", "t", "h", "e", "r", "e", "!", " ">>,
       <<"H", "i", "!", " ">>,
       <<"H", "e", "l", "l", "o", " ", "f", "r", "i", "e", "n", "d", "!", " ">> >>

enders ==
    << <<" ", "U+1F60A">>,
       <<" ", "H", "o", "p", "e", " ", "t", "h", "a", "t", " ", "h", "e", "l", "p", "s", "!">>,
       <<" ", "H", "a", "v", "e", " ", "a", " ", "g", "r", "e", "a", "t", " ", "d", "a", "y", "!">> >>

\* variant: the greeting wraps the lower-cased text
_make_friendly_lower(text) ==
    {s \o lower(text) \o e : s \in choice(starters), e \in choice(enders)}

\* the strings _make_friendly(text) can return, one per pair of random choices
_make_friendly(text) ==
    {s \o text \o e : s \in choice(starters), e \in choice(enders)}

\* the dicts generate_with_simple_prompts(text) can return
generate_with_simple_prompts(text) ==
    {[Professional |-> _make_professional(text),
      Formal       |-> _make_formal(text),
      Friendly     |-> f] : f \in _make_friendly(text)}

(***************************************************************************)
(* String constants of the pipeline                                        *)
(***************************************************************************)
could_not_understand ==
    <<"C", "o", "u", "l", "d", " ", "n", "o", "t", " ", "u", "n", "d", "e", "r", "s",
      "t", "a", "n", "d", " ", "a", "u", "d", "i", "o">>

error_processing_prefix ==
    <<"E", "r", "r", "o", "r", " ", "p", "r", "o", "c", "e", "s", "s", "i", "n", "g",
      " ", "a", "u", "d", "i", "o", ":", " ">>

translation_error_prefix ==
    <<"T", "r", "a", "n", "s", "l", "a", "t", "i", "o", "n", " ", "e", "r", "r", "o",
      "r", ":", " ">>

\* lang_map of main()
lang_map ==
    [Tamil     |-> <<"t", "a">>,
     Malayalam |-> <<"m", "l">>,
     Kannada   |-> <<"k", "n">>,
     Telugu    |-> <<"t", "e">>]

\* variant: the lang_code default "ta-IN" is passed whatever the selection
recognition_code_default(input_language) == <<"t", "a", "-", "I", "N">>

\* f"{st.session_state.input_language}-IN"
recognition_code(input_language) == input_language \o <<"-", "I", "N">>

(***************************************************************************)
(* What the external collaborators can answer                              *)
(***************************************************************************)
\* WAV bytes returned by record_audio: wavfile.write always emits the RIFF
\* header, so the buffer is never empty
Utterances == { <<"RIFF", "speech">>, <<"RIFF", "silence">> }

\* str(e) of an exception raised by a remote service or the file system
ErrorDetails == { <<"t", "i", "m", "e", "d", " ", "o", "u", "t">> }

\* text recognised by recognize_google
Transcripts == { <<"v", "a", "n", "a", "k", "k", "a", "m">> }

\* how one invocation of transcribe_audio can go: recognised text, the
\* service could not decode speech, any other failure of the recognition
\* call, or a failure of the temporary-file / AudioFile steps before it
RecognitionOutcomes ==
    {[kind |-> "ok", text |-> t] : t \in Transcripts}
    \cup {[kind |-> "UnknownValueError", text |-> <<>>]}
    \cup {[kind |-> k, text |-> d] : k \in {"RequestError", "OSError"}, d \in ErrorDetails}

\* English text returned by GoogleTranslator.translate
Translations ==
    { <<>>,
      <<"h", "e", "l", "l", "o">>,
      <<"y", "e", "a", "h", " ", "i", "'", "m", " ", "g", "o", "i", "n", "g">>,
      <<"S", "o", "r", "r", "y", ",", " ", "I", " ", "c", "a", "n", "'", "t", " ",
        "h", "e", "a", "r", " ", "y", "o", "u">> }

TranslationOutcomes ==
    {[kind |-> "ok", text |-> t] : t \in Translations}
    \cup {[kind |-> "Exception", text |-> d] : d \in ErrorDetails}

\* what pyttsx3 can do on a playback trigger
PlaybackOutcomes == {"ok", "init_error", "speak_error"}

Tones == {"Professional", "Formal", "Friendly"}

(***************************************************************************)
(* SpeechProcessor.transcribe_audio and TranslatorHelper                   *)
(***************************************************************************)
\* variant: the generic except clause comes first and swallows UnknownValueError
transcribe_audio_generic_first(outcome) ==
    CASE outcome.kind = "ok" -> outcome.text
      [] OTHER               -> error_processing_prefix \o outcome.text

\* the string transcribe_audio returns for an outcome
transcribe_audio(outcome) ==
    CASE outcome.kind = "ok"                -> outcome.text
      [] outcome.kind = "UnknownValueError" -> could_not_understand
      [] OTHER                              -> error_processing_prefix \o outcome.text

\* calls of recognize_google made by one invocation of transcribe_audio
recognize_google_calls(outcome) ==
    IF outcome.kind = "OSError" THEN 0 ELSE 1

\* the string translate_to_english returns for an outcome
translate_to_english(outcome) ==
    CASE outcome.kind = "ok" -> outcome.text
      [] OTHER               -> translation_error_prefix \o outcome.text

(***************************************************************************)
(* State                                                                   *)
(***************************************************************************)
VARIABLES
    session_state,     \* st.session_state
    selected_lang,     \* value of the sidebar selectbox
    pc,                \* where the script is: "idle" (waiting for the user),
                       \* or the blocking call main() is inside
    audio_data,        \* local of main()
    raw_text,          \* local of main()
    translated,        \* local of main()
    lang_code,         \* argument of transcribe_audio
    source_lang,       \* argument of TranslatorHelper(...)
    translate_text,    \* argument of translate_to_english
    tone_text,         \* argument of generate_with_simple_prompts
    recognition,       \* how the current transcribe_audio invocation went
    recognize_calls,   \* recognize_google calls of that invocation
    translation,       \* how the current translate_to_english invocation went
    uncaught,          \* exception that ended the latest script run
    st_error           \* st.error message shown by the latest script run

vars == <<session_state, selected_lang, pc, audio_data, raw_text, translated,
          lang_code, source_lang, translate_text, tone_text, recognition,
          recognize_calls, translation, uncaught, st_error>>

locals == <<audio_data, raw_text, translated, lang_code, source_lang,
            translate_text, tone_text, recognition, recognize_calls, translation>>

\* truthiness of an Optional str / bytes / dict
Truthy(o) == o # None /\ o # Some(<<>>)

\* module-level session-state initialisation; the selectbox shows its first option
Init ==
    /\ session_state = [recording           |-> FALSE,
                        audio_data          |-> None,
                        transcribed_text    |-> None,
                        generated_responses |-> None,
                        input_language      |-> <<"t", "a">>]
    /\ selected_lang = "Tamil"
    /\ pc = "idle"
    /\ audio_data = None
    /\ raw_text = None
    /\ translated = None
    /\ lang_code = None
    /\ source_lang = None
    /\ translate_text = None
    /\ tone_text = None
    /\ recognition = None
    /\ recognize_calls = 0
    /\ translation = None
    /\ uncaught = "none"
    /\ st_error = "none"

(***************************************************************************)
(* Script runs of main()                                                   *)
(***************************************************************************)
\* The user picks a language: the script reruns, no button is pressed.
SelectLanguage ==
    /\ pc = "idle"
    /\ \E name \in DOMAIN lang_map :
          /\ selected_lang' = name
          /\ session_state' = [session_state EXCEPT !.input_language = lang_map[name]]
    /\ uncaught' = "none"
    /\ st_error' = "none"
    /\ UNCHANGED <<pc, locals>>

\* The user presses "Start Recording" (enabled only while recording is False):
\* the flag is set and record_audio is entered.
StartRecording ==
    /\ pc = "idle"
    /\ ~session_state.recording
    /\ session_state' = [session_state EXCEPT !.input_language = lang_map[selected_lang],
                                              !.recording = TRUE]
    /\ pc' = "record_audio"
    /\ audio_data' = None
    /\ raw_text' = None
    /\ translated' = None
    /\ lang_code' = None
    /\ source_lang' = None
    /\ translate_text' = None
    /\ tone_text' = None
    /\ recognition' = None
    /\ recognize_calls' = 0
    /\ translation' = None
    /\ uncaught' = "none"
    /\ st_error' = "none"
    /\ UNCHANGED selected_lang

\* record_audio returns the WAV bytes; main() stores them and enters
\* transcribe_audio (a falsy result instead ends the run with "Recording failed.").
RecordReturns ==
    /\ pc = "record_audio"
    /\ \E u \in Utterances :
          /\ audio_data' = Some(u)
          /\ IF u # <<>>
             THEN /\ session_state' = [session_state EXCEPT !.audio_data = Some(u)]
                  /\ lang_code' = Some(recognition_code(session_state.input_language))
                  /\ pc' = "transcribe_audio"
                  /\ st_error' = st_error
             ELSE /\ session_state' = [session_state EXCEPT !.recording = FALSE]
                  /\ lang_code' = lang_code
                  /\ pc' = "idle"
                  /\ st_error' = "Recording failed."
    /\ UNCHANGED <<selected_lang, raw_text, translated, source_lang, translate_text,
                   tone_text, recognition, recognize_calls, translation, uncaught>>

\* sd.rec / sd.wait raise (no usable device): nothing in main() catches it, the
\* script run ends there and the trailing recording = False is never reached.
RecordFails ==
    /\ pc = "record_audio"
    /\ uncaught' = "PortAudioError"
    /\ pc' = "idle"
    /\ UNCHANGED <<session_state, selected_lang, locals, st_error>>

\* transcribe_audio returns; main() builds the TranslatorHelper and enters
\* translate_to_english with the returned string.
TranscribeReturns ==
    /\ pc = "transcribe_audio"
    /\ \E outcome \in RecognitionOutcomes :
          /\ recognition' = Some(outcome)
          /\ recognize_calls' = recognize_google_calls(outcome)
          /\ raw_text' = Some(transcribe_audio(outcome))
          /\ translate_text' = Some(transcribe_audio(outcome))
    /\ source_lang' = Some(session_state.input_language)
    /\ pc' = "translate_to_english"
    /\ UNCHANGED <<session_state, selected_lang, audio_data, translated, lang_code,
                   tone_text, translation, uncaught, st_error>>

\* variant: the transcription, not the translation, is stored and rewritten
TranslateReturns_StoresRaw ==
    /\ pc = "translate_to_english"
    /\ \E outcome \in TranslationOutcomes :
          /\ translation' = Some(outcome)
          /\ translated' = Some(translate_to_english(outcome))
    /\ session_state' = [session_state EXCEPT !.transcribed_text = raw_text]
    /\ tone_text' = raw_text
    /\ pc' = "generate_with_simple_prompts"
    /\ UNCHANGED <<selected_lang, audio_data, raw_text, lang_code, source_lang,
                   translate_text, recognition, recognize_calls, uncaught, st_error>>

\* translate_to_english returns; main() stores the string as transcribed_text
\* and enters generate_with_simple_prompts with it.
TranslateReturns ==
    /\ pc = "translate_to_english"
    /\ \E outcome \in TranslationOutcomes :
          /\ translation' = Some(outcome)
          /\ translated' = Some(translate_to_english(outcome))
          /\ session_state' = [session_state EXCEPT
                                  !.transcribed_text = Some(translate_to_english(outcome))]
          /\ tone_text' = Some(translate_to_english(outcome))
    /\ pc' = "generate_with_simple_prompts"
    /\ UNCHANGED <<selected_lang, audio_data, raw_text, lang_code, source_lang,
                   translate_text, recognition, recognize_calls, uncaught, st_error>>

\* variant: the dict is stored only while no ToneSet is held yet
GenerateTones_KeepsFirst ==
    /\ pc = "generate_with_simple_prompts"
    /\ \E responses \in generate_with_simple_prompts(TheValue(tone_text)) :
          session_state' =
              [session_state EXCEPT
                  !.generated_responses =
                      IF session_state.generated_responses = None
                      THEN Some(responses) ELSE session_state.generated_responses,
                  !.recording = FALSE]
    /\ pc' = "idle"
    /\ UNCHANGED <<selected_lang, locals, uncaught, st_error>>

\* generate_with_simple_prompts returns; main() stores the dict, clears the
\* recording flag and the script run ends.
GenerateTones ==
    /\ pc = "generate_with_simple_prompts"
    /\ \E responses \in generate_with_simple_prompts(TheValue(tone_text)) :
          session_state' = [session_state EXCEPT !.generated_responses = Some(responses),
                                                 !.recording = FALSE]
    /\ pc' = "idle"
    /\ UNCHANGED <<selected_lang, locals, uncaught, st_error>>

\* The user presses "Play <tone>": the script reruns, TextToSpeech() is built
\* (pyttsx3.init() outside any try) and speak() runs (its body inside try).
Play(tone) ==
    /\ pc = "idle"
    /\ Truthy(session_state.generated_responses)
    /\ tone \in DOMAIN TheValue(session_state.generated_responses)
    /\ session_state' = [session_state EXCEPT !.input_language = lang_map[selected_lang]]
    /\ \E outcome \in PlaybackOutcomes :
          /\ uncaught' = IF outcome = "init_error" THEN "RuntimeError" ELSE "none"
          /\ st_error' = IF outcome = "speak_error" THEN "Text-to-speech error" ELSE "none"
    /\ UNCHANGED <<selected_lang, pc, locals>>

PlayAny == \E tone \in Tones : Play(tone)

Next ==
    \/ SelectLanguage
    \/ StartRecording
    \/ RecordReturns
    \/ RecordFails
    \/ TranscribeReturns
    \/ TranslateReturns
    \/ GenerateTones
    \/ PlayAny

Spec == Init /\ [][Next]_vars

(***************************************************************************)
(* The tone transforms on their own: the run is taken up at the moment     *)
(* translate_to_english has returned an English text built from the words  *)
(* below, and generate_with_simple_prompts is about to be applied to it.   *)
(***************************************************************************)
MaxTokens == 4

Tokens ==
    << <<"i", "'", "m">>,
       <<"d", "o", "n", "'", "t">>,
       <<"c", "a", "n", "'", "t">>,
       <<"y", "e", "a", "h">>,
       <<"G", "o">>,
       <<" ">>,
       <<".">> >>

RECURSIVE Flatten(_)
Flatten(ts) == IF ts = <<>> THEN <<>> ELSE Tokens[Head(ts)] \o Flatten(Tail(ts))

ToneInputs ==
    {Flatten(ts) : ts \in UNION {[1..n -> DOMAIN Tokens] : n \in 0..MaxTokens}}

InitTone ==
    /\ \E text \in ToneInputs, t \in Transcripts :
          /\ session_state = [recording           |-> TRUE,
                              audio_data          |-> Some(<<"RIFF", "speech">>),
                              transcribed_text    |-> Some(text),
                              generated_responses |-> None,
                              input_language      |-> <<"t", "a">>]
          /\ audio_data = Some(<<"RIFF", "speech">>)
          /\ raw_text = Some(t)
          /\ translate_text = Some(t)
          /\ recognition = Some([kind |-> "ok", text |-> t])
          /\ translation = Some([kind |-> "ok", text |-> text])
          /\ translated = Some(text)
          /\ tone_text = Some(text)
    /\ selected_lang = "Tamil"
    /\ pc = "generate_with_simple_prompts"
    /\ lang_code = Some(recognition_code(<<"t", "a">>))
    /\ source_lang = Some(<<"t", "a">>)
    /\ recognize_calls = 1
    /\ uncaught = "none"
    /\ st_error = "none"

NextTone == GenerateTones

SpecTone == InitTone /\ [][NextTone]_vars

(***************************************************************************)
(* Properties                                                              *)
(***************************************************************************)
responses == TheValue(session_state.generated_responses)

\* a dict r is the three-label rewrite of the string text
IsRewriteOf(r, text) ==
    /\ DOMAIN r = Tones
    /\ r.Professional = _make_professional(text)
    /\ r.Formal = _make_formal(text)
    /\ r.Friendly \in _make_friendly(text)

\* the string the Translator hands back for the way its call went
TranslatorReturn ==
    IF TheValue(translation).kind = "ok"
    THEN TheValue(translation).text
    ELSE translation_error_prefix \o TheValue(translation).text

\* C1: when the Transcriber returned "Could not understand audio", the
\* Translator is invoked on exactly that string, what it returns (translation
\* or "Translation error: ..." sentinel) is, unmodified, the ToneRewriter's
\* input and the stored last TranslatedText, and the run goes on to its end
\* (ToneSet stored, flag cleared) instead of being aborted.
C1_RecognitionFailurePropagates ==
    raw_text = Some(could_not_understand) =>
        /\ translate_text = Some(could_not_understand)
        /\ pc \in {"translate_to_english", "generate_with_simple_prompts", "idle"}
        /\ pc = "translate_to_english" => uncaught = "none"
        /\ pc \in {"generate_with_simple_prompts", "idle"} =>
              /\ translation # None
              /\ tone_text = Some(TranslatorReturn)
              /\ session_state.transcribed_text = Some(TranslatorReturn)
        /\ pc = "idle" =>
              /\ session_state.generated_responses # None
              /\ IsRewriteOf(responses, TranslatorReturn)
              /\ ~session_state.recording

C1_Witness ==
    /\ pc = "idle"
    /\ raw_text = Some(could_not_understand)
    /\ translation # None
    /\ TheValue(translation).kind = "Exception"
    /\ session_state.transcribed_text
          = Some(translation_error_prefix \o <<"t", "i", "m", "e", "d", " ", "o", "u", "t">>)
    /\ session_state.generated_responses # None

\* C2: the ToneRewriter is called, and a ToneSet is stored, only for a
\* non-empty TranslatedText (never for the empty string or an absent one).
C2_ToneSetOnlyFromNonEmptyText ==
    /\ pc = "generate_with_simple_prompts" => Truthy(tone_text)
    /\ session_state.generated_responses # None => Truthy(session_state.transcribed_text)

\* some run triggered by the capture button has ended: the script is idle and
\* either the flag is still set (the run was cut short) or an utterance was stored
SomeRunEnded ==
    /\ pc = "idle"
    /\ session_state.recording \/ session_state.audio_data # None

\* C3 (as claimed): after any run has ended, the stored TranslatedText and
\* ToneSet are both the ones produced by that run, and the ToneSet is the
\* three-label rewrite of the TranslatedText.
C3_EveryRunReplacesOutputs ==
    SomeRunEnded =>
        /\ translated # None
        /\ session_state.transcribed_text = translated
        /\ session_state.generated_responses # None
        /\ IsRewriteOf(responses, TheValue(translated))

\* C3 (amended): after a run whose capture call returned, the stored
\* TranslatedText and ToneSet are both the ones produced by that run and match;
\* a run whose capture call raised stores nothing, so the pair left by the
\* latest completed run (or no pair at all) is still there, still matching.
C3_CompletedRunReplacesOutputs ==
    pc = "idle" =>
        /\ audio_data # None =>
              /\ translated # None
              /\ session_state.transcribed_text = translated
              /\ session_state.generated_responses # None
              /\ IsRewriteOf(responses, TheValue(translated))
        /\ audio_data = None =>
              \/ /\ session_state.transcribed_text = None
                 /\ session_state.generated_responses = None
              \/ /\ session_state.transcribed_text # None
                 /\ session_state.generated_responses # None
                 /\ IsRewriteOf(responses, TheValue(session_state.transcribed_text))

C3_Witness ==
    /\ pc = "idle"
    /\ uncaught = "PortAudioError"
    /\ audio_data = None
    /\ session_state.transcribed_text = Some(<<"h", "e", "l", "l", "o">>)
    /\ session_state.generated_responses # None
    /\ responses.Professional = <<"H", "e", "l", "l", "o", ".">>

\* the stages whose output has been produced, by where the script is
AfterCapture == pc \in {"transcribe_audio", "translate_to_english", "generate_with_simple_prompts"}
AfterTranscribe == pc \in {"translate_to_english", "generate_with_simple_prompts"}
AfterTranslate == pc = "generate_with_simple_prompts"
AfterRewrite == pc = "idle" /\ translated # None

\* C4: each stage's output is in SessionState as soon as the stage has
\* completed and before the next one begins: the utterance after capture, the
\* transcription result after the Transcriber returns, the translated text
\* after the Translator returns and the ToneSet after the ToneRewriter returns.
C4_EveryStageOutputStored ==
    /\ AfterCapture => audio_data # None /\ session_state.audio_data = audio_data
    /\ AfterTranscribe =>
          /\ raw_text # None
          /\ \E key \in {"audio_data", "transcribed_text"} : session_state[key] = raw_text
    /\ AfterTranslate => translated # None /\ session_state.transcribed_text = translated
    /\ AfterRewrite =>
          /\ session_state.generated_responses # None
          /\ IsRewriteOf(responses, TheValue(translated))

\* C5: a playback trigger lets no exception out and leaves SessionState as it
\* was, whether the engine works, fails to initialise or fails while speaking.
C5_PlaybackNonFatal ==
    [][PlayAny => (uncaught' = "none" /\ session_state' = session_state)]_vars

\* the text after lower-casing, the four ordered substitutions, capitalising
\* and period-appending
Core(text) ==
    LET l == lower(text)
        a == replace(l, <<"i", "'", "m">>, <<"I", " ", "a", "m">>)
        b == replace(a, <<"d", "o", "n", "'", "t">>, <<"d", "o", " ", "n", "o", "t">>)
        c == replace(b, <<"c", "a", "n", "'", "t">>, <<"c", "a", "n", "n", "o", "t">>)
        d == replace(c, <<"y", "e", "a", "h">>, <<"y", "e", "s">>)
        e == capitalize(d)
    IN  IF Len(e) > 0 /\ e[Len(e)] = "." THEN e ELSE e \o <<".">>

\* C6: Professional is "I would like to inform you that " + core exactly when
\* len(core) > 20 and core otherwise; Formal is "It is my understanding that "
\* + core exactly when len(core) > 15 and core otherwise; same core for both.
C6_PrefixThresholds ==
    session_state.generated_responses # None =>
        LET core == Core(TheValue(tone_text))
        IN  /\ Len(core) > 20  => responses.Professional = professional_prefix \o core
            /\ Len(core) <= 20 => responses.Professional = core
            /\ Len(core) > 15  => responses.Formal = formal_prefix \o core
            /\ Len(core) <= 15 => responses.Formal = core

\* a core of exactly 20 characters: Professional unprefixed, Formal prefixed
C6_Witness ==
    /\ session_state.generated_responses # None
    /\ Len(Core(TheValue(tone_text))) = 20
    /\ responses.Professional = Core(TheValue(tone_text))
    /\ responses.Formal = formal_prefix \o Core(TheValue(tone_text))

\* the 9 strings prefix + text + suffix
NineCombinations(text) ==
    { <<"H", "e", "y", " ", "t", "h", "e", "r", "e", "!", " ">> \o text \o <<" ", "U+1F60A">>,
      <<"H", "e", "y", " ", "t", "h", "e", "r", "e", "!", " ">> \o text
          \o <<" ", "H", "o", "p", "e", " ", "t", "h", "a", "t", " ", "h", "e", "l", "p", "s", "!">>,
      <<"H", "e", "y", " ", "t", "h", "e", "r", "e", "!", " ">> \o text
          \o <<" ", "H", "a", "v", "e", " ", "a", " ", "g", "r", "e", "a", "t", " ", "d", "a", "y", "!">>,
      <<"H", "i", "!", " ">> \o text \o <<" ", "U+1F60A">>,
      <<"H", "i", "!", " ">> \o text
          \o <<" ", "H", "o", "p", "e", " ", "t", "h", "a", "t", " ", "h", "e", "l", "p", "s", "!">>,
      <<"H", "i", "!", " ">> \o text
          \o <<" ", "H", "a", "v", "e", " ", "a", " ", "g", "r", "e", "a", "t", " ", "d", "a", "y", "!">>,
      <<"H", "e", "l", "l", "o", " ", "f", "r", "i", "e", "n", "d", "!", " ">> \o text
          \o <<" ", "U+1F60A">>,
      <<"H", "e", "l", "l", "o", " ", "f", "r", "i", "e", "n", "d", "!", " ">> \o text
          \o <<" ", "H", "o", "p", "e", " ", "t", "h", "a", "t", " ", "h", "e", "l", "p", "s", "!">>,
      <<"H", "e", "l", "l", "o", " ", "f", "r", "i", "e", "n", "d", "!", " ">> \o text
          \o <<" ", "H", "a", "v", "e", " ", "a", " ", "g", "r", "e", "a", "t", " ", "d", "a", "y", "!">> }

\* C7: for every input (the empty string included) and every random choice
\* the Friendly variant is one of the 9 strings prefix + original text +
\* suffix, and each of the 9 is a possible result.
C7_FriendlyIsOneOfNine ==
    /\ tone_text # None =>
          /\ Cardinality(NineCombinations(TheValue(tone_text))) = 9
          /\ NineCombinations(TheValue(tone_text)) \subseteq _make_friendly(TheValue(tone_text))
    /\ session_state.generated_responses # None =>
          responses.Friendly \in NineCombinations(TheValue(tone_text))

\* the empty string wrapped by "Hi! " and the emoji suffix
C7_Witness ==
    /\ tone_text = Some(<<>>)
    /\ session_state.generated_responses # None
    /\ responses.Friendly = <<"H", "i", "!", " ", " ", "U+1F60A">>

C9_RecognitionCode ==
    /\ session_state.input_language
          \in {<<"t", "a">>, <<"m", "l">>, <<"k", "n">>, <<"t", "e">>}
    /\ AfterCapture =>
          lang_code = Some(session_state.input_language \o <<"-", "I", "N">>)
    /\ AfterTranscribe =>
          /\ source_lang = Some(session_state.input_language)
          /\ lang_code = Some(TheValue(source_lang) \o <<"-", "I", "N">>)

C9_Witness ==
    /\ pc = "translate_to_english"
    /\ selected_lang = "Telugu"
    /\ lang_code = Some(<<"t", "e", "-", "I", "N">>)
    /\ source_lang = Some(<<"t", "e">>)

\* C10: the capture-in-progress flag is true exactly while a run is executing:
\* set when the run starts and false again once the run has ended, by whatever
\* path (a device failure inside the capture call included).
C10_FlagOnlyWhileRunning ==
    session_state.recording <=> pc # "idle"

====
